---- MODULE Spec2Model ----
(***************************************************************************)
(* A model of streamlit_app.py, the SIMATS faculty review portal: the      *)
(* SQLite store (tables faculty and rating), the schema migration of       *)
(* init_db, the login helpers, and the script that Streamlit re-runs from  *)
(* top to bottom for every widget event of every browser session.          *)
(*                                                                         *)
(* Text is a sequence of one-character strings.  Averages are integers in  *)
(* tenths (9.0 is 90).  SQL NULL / Python None is NullInt in an INTEGER    *)
(* cell and None in a TEXT cell.                                           *)
(***************************************************************************)
EXTENDS Integers, Sequences, FiniteSets, TLC

VARIABLES
    tables,          \* names of the tables that exist in faculty_ratings.db
    rating_cols,     \* PRAGMA table_info(rating): the column names, in order
    faculty,         \* rows of table faculty, in rowid order
    rating,          \* rows of table rating, in rowid order
    sqlite_sequence, \* AUTOINCREMENT counters, per table
    now,             \* datetime.datetime.now(), in whole minutes
    session,         \* st.session_state and the page radio, per browser session
    alert,           \* the st.warning / st.error / st.success / st.info last shown
    call             \* the last direct call of a login helper: [fn, arg, ret]

vars == <<tables, rating_cols, faculty, rating, sqlite_sequence, now, session, alert, call>>

-----------------------------------------------------------------------------
(* Bounds of the model *)

MaxFaculty == 2
MaxRatings == 2
MaxTime == 2
\* the clock ticks this many times a minute
TicksPerMinute == 2

-----------------------------------------------------------------------------
(* Text *)

None == <<"<None>">>
NullInt == -1

Whitespace == {" ", "\t", "\n", "\r"}

RECURSIVE LStrip(_)
LStrip(s) ==
    IF s # <<>> /\ Head(s) \in Whitespace THEN LStrip(Tail(s)) ELSE s

RECURSIVE RStrip(_)
RStrip(s) ==
    IF s # <<>> /\ s[Len(s)] \in Whitespace
    THEN RStrip(SubSeq(s, 1, Len(s) - 1))
    ELSE s

\* str.strip()
Strip(s) == RStrip(LStrip(s))

\* the code point of a character, for the characters the model uses
Ord(c) ==
    CASE c = "\t" -> 9
      [] c = "\n" -> 10
      [] c = "\r" -> 13
      [] c = " " -> 32
      [] c = "(" -> 40
      [] c = ")" -> 41
      [] c = "A" -> 65
      [] c = "B" -> 66
      [] c = "C" -> 67
      [] c = "a" -> 97
      [] c = "b" -> 98
      [] OTHER -> 120

\* a < b in SQLite's BINARY collation (memcmp, then the shorter first)
RECURSIVE TextLess(_, _)
TextLess(a, b) ==
    IF b = <<>> THEN FALSE
    ELSE IF a = <<>> THEN TRUE
    ELSE IF Head(a) = Head(b) THEN TextLess(Tail(a), Tail(b))
    ELSE Ord(Head(a)) < Ord(Head(b))

StartsWith(s, p) == Len(s) >= Len(p) /\ SubSeq(s, 1, Len(p)) = p

\* s.split(sep)[0]: what precedes the first occurrence of sep, or all of s
RECURSIVE SplitFirst(_, _)
SplitFirst(s, sep) ==
    IF s = <<>> \/ StartsWith(s, sep) THEN <<>>
    ELSE <<Head(s)>> \o SplitFirst(Tail(s), sep)

-----------------------------------------------------------------------------
(* Login helpers *)

Digits == {"0", "1", "2", "3", "4", "5", "6", "7", "8", "9"}
RegNoLen == 9
Suffix == <<".", "s", "i", "m", "a", "t", "s", "@",
            "s", "a", "v", "e", "e", "t", "h", "a", ".", "c", "o", "m">>

\* re.match(r"^[0-9]{9}\.simats@saveetha\.com$", email or ""): in Python "$"
\* matches at the end of the string and also just before a final newline
valid_college_email(email) ==
    LET s == IF email = None THEN <<>> ELSE email
        n == RegNoLen + Len(Suffix)
    IN  /\ Len(s) >= n
        /\ \A i \in 1..RegNoLen : s[i] \in Digits
        /\ SubSeq(s, RegNoLen + 1, n) = Suffix
        /\ \/ Len(s) = n
           \/ Len(s) = n + 1 /\ s[n + 1] = "\n"

\* a variant that splits at the "@" instead
extract_reg_no_at(email) ==
    IF email # None /\ email # <<>> THEN SplitFirst(email, <<"@">>) ELSE None

extract_reg_no(email) ==
    IF email # None /\ email # <<>> THEN SplitFirst(email, Suffix) ELSE None

-----------------------------------------------------------------------------
(* Numbers *)

Range(s) == {s[i] : i \in DOMAIN s}

RECURSIVE SumSeq(_)
SumSeq(s) == IF s = <<>> THEN 0 ELSE Head(s) + SumSeq(Tail(s))

\* num/den rounded to an integer, a tie going to the even neighbour: Python 3's
\* round() of a float that holds num/den exactly
RoundHalfEven(num, den) ==
    LET q == num \div den
        r == num % den
    IN  IF 2 * r < den THEN q
        ELSE IF 2 * r > den THEN q + 1
        ELSE IF q % 2 = 0 THEN q ELSE q + 1

\* round(num/den, 1), in tenths.  A tie at one decimal is a value x.x5; with
\* fewer than ten samples of whole or half numbers every such mean is x.25 or
\* x.75, which a float holds exactly, so round() sends it to the even tenth
RoundTenths(num, den) == RoundHalfEven(10 * num, den)

-----------------------------------------------------------------------------
(* The schema: init_db *)

\* CREATE TABLE IF NOT EXISTS rating (...), the columns of a fresh deployment
CurrentCols ==
    <<"id", "faculty_id", "leniency", "internal_marks", "correction", "teaching",
      "internal_from", "internal_to", "comment", "created_at", "user_email", "reg_no">>

\* a variant whose last step is missing
MigrationColsWithoutRegNo ==
    <<"internal_marks", "teaching", "internal_from", "internal_to", "user_email">>

\* the add_column_if_missing calls, in order
MigrationCols ==
    <<"internal_marks", "teaching", "internal_from", "internal_to", "user_email", "reg_no">>

TextCols == {"comment", "user_email", "reg_no", "name", "department"}

\* the NULL of a cell of column c
Null(c) == IF c \in TextCols THEN None ELSE NullInt

\* ALTER TABLE rating ADD COLUMN name type, on t = [cols, rows, ok]: SQLite raises
\* "duplicate column name" when the column exists, and otherwise appends the
\* column and every existing row reads NULL in it
AlterAddColumn(t, name) ==
    IF name \in Range(t.cols)
    THEN [t EXCEPT !.ok = FALSE]
    ELSE [cols |-> Append(t.cols, name),
          rows |-> [i \in DOMAIN t.rows |->
                       [c \in DOMAIN t.rows[i] \cup {name} |->
                           IF c = name THEN Null(name) ELSE t.rows[i][c]]],
          ok |-> TRUE]

\* add_column_if_missing(name, col_type); cols is the PRAGMA table_info list read
\* once before the first call, and an exception of ALTER TABLE is swallowed
add_column_if_missing(t, cols, name) ==
    IF name \notin Range(cols)
    THEN [AlterAddColumn(t, name) EXCEPT !.ok = TRUE]
    ELSE t

RECURSIVE AddColumns(_, _, _)
AddColumns(t, cols, names) ==
    IF names = <<>> THEN t
    ELSE AddColumns(add_column_if_missing(t, cols, Head(names)), cols, Tail(names))

\* a variant that recreates the rating table on every start
init_db_recreate(db) ==
    [tables |-> db.tables \cup {"faculty", "rating"}, cols |-> CurrentCols, rows |-> <<>>]

\* init_db() on the database [tables, cols, rows]: both CREATE TABLE IF NOT
\* EXISTS statements, then the migration of an older rating table
init_db(db) ==
    LET cols == IF "rating" \in db.tables THEN db.cols ELSE CurrentCols
        rows == IF "rating" \in db.tables THEN db.rows ELSE <<>>
        t == AddColumns([cols |-> cols, rows |-> rows, ok |-> TRUE], cols, MigrationCols)
    IN  [tables |-> db.tables \cup {"faculty", "rating"},
         cols |-> t.cols,
         rows |-> t.rows]

Db == [tables |-> tables, cols |-> rating_cols, rows |-> rating]

-----------------------------------------------------------------------------
(* The store: helper functions *)

\* department if department else None
OrNone(text) == IF text # <<>> THEN text ELSE None

\* the row INSERT INTO faculty (name, department) writes; id is AUTOINCREMENT
FacultyRow(name, department) ==
    [id |-> sqlite_sequence.faculty + 1,
     name |-> name,
     department |-> OrNone(department)]

\* the columns INSERT INTO rating (...) names
InsertCols ==
    {"faculty_id", "leniency", "internal_marks", "correction", "teaching",
     "internal_from", "internal_to", "comment", "created_at", "user_email", "reg_no"}

\* datetime.datetime.now().isoformat(timespec="minutes"), as the minute it names
IsoMinutes(t) == t \div TicksPerMinute

\* the values add_rating binds to its INSERT, form holding leniency, correction,
\* teaching, internal_from, internal_to and comment
RatingValues(faculty_id, form, user_email, reg_no) ==
    [id |-> sqlite_sequence.rating + 1,
     faculty_id |-> faculty_id,
     leniency |-> form.leniency,
     internal_marks |-> RoundHalfEven(form.internal_from + form.internal_to, 2),
     correction |-> form.correction,
     teaching |-> form.teaching,
     internal_from |-> form.internal_from,
     internal_to |-> form.internal_to,
     comment |-> OrNone(form.comment),
     created_at |-> IsoMinutes(now),
     user_email |-> user_email,
     reg_no |-> reg_no]

\* a variant whose VALUES tuple has faculty_id and leniency changed over
RatingRowMisbound(cols, faculty_id, form, user_email, reg_no) ==
    LET vals == [RatingValues(faculty_id, form, user_email, reg_no)
                    EXCEPT !.faculty_id = form.leniency, !.leniency = faculty_id]
    IN  [c \in Range(cols) |-> IF c \in DOMAIN vals THEN vals[c] ELSE Null(c)]

\* the row add_rating writes into a rating table with columns cols
RatingRow(cols, faculty_id, form, user_email, reg_no) ==
    LET vals == RatingValues(faculty_id, form, user_email, reg_no)
    IN  [c \in Range(cols) |-> IF c \in DOMAIN vals THEN vals[c] ELSE Null(c)]

\* the ratings of one faculty, as indices into rating
RatingsOf(fid) == {i \in DOMAIN rating : rating[i].faculty_id = fid}

\* the orders in which a query may return the rows idx when it sorts them by
\* the relation before (<<i, j>>: i must come before j); rows that tie come in
\* any order
Orders(idx, before) ==
    LET n == Cardinality(idx)
    IN  {p \in [1..n -> idx] :
            /\ \A i, j \in 1..n : i # j => p[i] # p[j]
            /\ \A i, j \in 1..n : i < j => <<p[j], p[i]>> \notin before}

\* AVG(expr) over the rows whose expr is not NULL, as the fraction num/den; NULL,
\* written den = 0, when there is none.  vals holds scale * expr for each row
Avg(vals, scale) ==
    LET nonnull == SelectSeq(vals, LAMBDA v : v # NullInt)
    IN  [num |-> SumSeq(nonnull), den |-> scale * Len(nonnull)]

\* COUNT(expr): the rows whose expr is not NULL
Count(vals) == Len(SelectSeq(vals, LAMBDA v : v # NullInt))

\* round(avg or 0, 1), in tenths
Rounded(avg) == IF avg.den = 0 THEN 0 ELSE RoundTenths(avg.num, avg.den)

Column(rows, c) == [i \in DOMAIN rows |-> rows[i][c]]

\* a variant that averages the old internal_marks column
MidpointsFromInternalMarks(rows) ==
    [i \in DOMAIN rows |->
        IF rows[i].internal_marks = NullInt THEN NullInt ELSE 2 * rows[i].internal_marks]

\* 2 * ((internal_from + internal_to)/2.0) for each row, NULL when either is
Midpoints2(rows) ==
    [i \in DOMAIN rows |->
        IF rows[i].internal_from = NullInt \/ rows[i].internal_to = NullInt
        THEN NullInt
        ELSE rows[i].internal_from + rows[i].internal_to]

\* the r side of faculty f LEFT JOIN rating r ON f.id = r.faculty_id: the
\* matching ratings, or one all-NULL row when there is none
LeftJoin(fid) ==
    LET rs == SelectSeq(rating, LAMBDA r : r.faculty_id = fid)
    IN  IF rs = <<>> THEN <<[c \in Range(CurrentCols) |-> Null(c)]>> ELSE rs

\* one row of get_all_faculty_with_avg, for the faculty row f
FacultyWithAvg(f) ==
    LET rs == LeftJoin(f.id)
    IN  [id |-> f.id, name |-> f.name, department |-> f.department,
         avg_leniency |-> Rounded(Avg(Column(rs, "leniency"), 1)),
         avg_internal |-> Rounded(Avg(Midpoints2(rs), 2)),
         avg_correction |-> Rounded(Avg(Column(rs, "correction"), 1)),
         avg_teaching |-> Rounded(Avg(Column(rs, "teaching"), 1)),
         rating_count |-> Count(Column(rs, "id"))]

\* a variant that groups by f.name alone
FacultyGroupsByName ==
    {{j \in DOMAIN faculty : faculty[j].name = faculty[i].name} : i \in DOMAIN faculty}

\* GROUP BY f.id, f.name, f.department: the faculty rows of each group
FacultyGroups ==
    {{j \in DOMAIN faculty : faculty[j] = faculty[i]} : i \in DOMAIN faculty}

\* ORDER BY f.name ASC
NameAsc ==
    {ij \in (DOMAIN faculty) \X (DOMAIN faculty) :
        TextLess(faculty[ij[1]].name, faculty[ij[2]].name)}

\* get_all_faculty_with_avg(): every list the query may return
get_all_faculty_with_avg ==
    LET first == {CHOOSE i \in g : TRUE : g \in FacultyGroups}
    IN  {[k \in DOMAIN p |-> FacultyWithAvg(faculty[p[k]])] : p \in Orders(first, NameAsc)}

\* get_faculty_by_id(fid): the row as a one-element set, the empty set for None
get_faculty_by_id(fid) ==
    {[id |-> f.id, name |-> f.name, department |-> f.department] :
        f \in {g \in Range(faculty) : g.id = fid}}

\* ORDER BY datetime(created_at) DESC
NewerFirst ==
    {ij \in (DOMAIN rating) \X (DOMAIN rating) :
        rating[ij[1]].created_at > rating[ij[2]].created_at}

\* the orders in which get_ratings_for_faculty may return the rows of faculty_id
RatingOrders(faculty_id) == Orders(RatingsOf(faculty_id), NewerFirst)

RatingDict(r) ==
    [leniency |-> r.leniency, correction |-> r.correction, teaching |-> r.teaching,
     internal_range |-> <<r.internal_from, r.internal_to>>,
     comment |-> r.comment, created_at |-> r.created_at, reg_no |-> r.reg_no]

\* get_ratings_for_faculty(faculty_id): every list the query may return
get_ratings_for_faculty(faculty_id) ==
    {[k \in DOMAIN p |-> RatingDict(rating[p[k]])] : p \in RatingOrders(faculty_id)}

\* get_avg_for_faculty(faculty_id): the aggregates over WHERE faculty_id = ?
get_avg_for_faculty(faculty_id) ==
    LET rs == SelectSeq(rating, LAMBDA r : r.faculty_id = faculty_id)
        count == Count(Column(rs, "id"))
    IN  [avg_leniency |-> Rounded(Avg(Column(rs, "leniency"), 1)),
         avg_internal |-> Rounded(Avg(Midpoints2(rs), 2)),
         avg_correction |-> Rounded(Avg(Column(rs, "correction"), 1)),
         avg_teaching |-> Rounded(Avg(Column(rs, "teaching"), 1)),
         rating_count |-> count]

\* add_faculty(name, department): the faculty table and its counter afterwards
add_faculty(name, department) ==
    /\ faculty' = Append(faculty, FacultyRow(name, department))
    /\ sqlite_sequence' = [sqlite_sequence EXCEPT !.faculty = @ + 1]

\* add_rating(...) on the rating rows that init_db left: the INSERT raises when
\* the table lacks a column it names, and then writes nothing
add_rating(rows, cols, faculty_id, form, user_email, reg_no) ==
    IF InsertCols \subseteq Range(cols)
    THEN /\ rating' = Append(rows, RatingRow(cols, faculty_id, form, user_email, reg_no))
         /\ sqlite_sequence' = [sqlite_sequence EXCEPT !.rating = @ + 1]
    ELSE /\ rating' = rows
         /\ sqlite_sequence' = sqlite_sequence

-----------------------------------------------------------------------------
(* What the users type *)

Rep(c, n) == [i \in 1..n |-> c]

Reg1 == Rep("1", RegNoLen)
Reg2 == Rep("2", RegNoLen)

EmailLeads == {<<>>, <<" ">>, <<"x">>}
EmailRegs ==
    {Reg1, Reg2, Rep("1", RegNoLen - 1), Rep("1", RegNoLen + 1),
     Rep("1", RegNoLen - 1) \o <<"a">>}
EmailTails ==
    {Suffix, <<"x">> \o Tail(Suffix), Suffix \o <<" ">>, Suffix \o <<"\n">>,
     Suffix \o <<"x">>, SubSeq(Suffix, 8, Len(Suffix)), <<>>}

\* the texts offered to the login form and to the login helpers
EmailInputs ==
    {lead \o reg \o tail : lead \in EmailLeads, reg \in EmailRegs, tail \in EmailTails}
        \cup {<<>>, <<" ">>}

\* the texts typed into login_form
LoginInputs ==
    {Reg1 \o Suffix, Reg2 \o Suffix,
     <<" ">> \o Reg2 \o Suffix \o <<" ">>,
     Reg1 \o Suffix \o <<"\n">>,
     <<>>,
     Rep("1", RegNoLen - 1) \o Suffix,
     Reg1 \o <<"x">> \o Tail(Suffix),
     Reg1 \o Suffix \o <<"x">>,
     <<"x">> \o Reg1 \o Suffix}

\* the fillings of add_faculty_form
FacultyForms ==
    {[name |-> <<>>, dept |-> <<"C">>],
     [name |-> <<" ">>, dept |-> <<>>],
     [name |-> <<" ", "A">>, dept |-> <<" ">>],
     [name |-> <<"B", " ">>, dept |-> <<"C", " ">>]}

\* the fillings of rating_form; st.number_input keeps leniency, correction and
\* teaching in 1..10 and both internal marks in 50..100
RatingForms ==
    {[leniency |-> 8, correction |-> 6, teaching |-> 9,
      internal_from |-> 70, internal_to |-> 80, comment |-> <<>>],
     [leniency |-> 8, correction |-> 6, teaching |-> 9,
      internal_from |-> 90, internal_to |-> 80, comment |-> <<"x">>]}

\* the arguments of the direct calls of add_faculty
StoreFaculty ==
    {[name |-> <<"B">>, dept |-> <<"C">>],
     [name |-> <<"A">>, dept |-> <<>>]}

\* the arguments of the direct calls of add_rating: values rating_form lets through
StoreForms ==
    {[leniency |-> 8, correction |-> 6, teaching |-> 9,
      internal_from |-> 70, internal_to |-> 80, comment |-> <<>>],
     [leniency |-> 10, correction |-> 8, teaching |-> 7,
      internal_from |-> 60, internal_to |-> 70, comment |-> <<"x">>],
     [leniency |-> 1, correction |-> 1, teaching |-> 2,
      internal_from |-> 70, internal_to |-> 81, comment |-> <<>>]}

\* the tables an earlier revision left: the columns no migration step adds
BaseCols == <<"id", "faculty_id", "leniency", "correction", "comment", "created_at">>

\* a rating row of an earlier revision, with the columns cols
LegacyRow(cols, leniency) ==
    LET vals == [id |-> 1, faculty_id |-> 1, leniency |-> leniency,
                 internal_marks |-> 80, correction |-> 2, teaching |-> 3,
                 internal_from |-> 70, internal_to |-> 90, comment |-> <<"x">>,
                 created_at |-> 0, user_email |-> Reg1 \o Suffix, reg_no |-> Reg1]
    IN  [c \in Range(cols) |-> vals[c]]

-----------------------------------------------------------------------------
(* The script *)

Sessions == {"s1", "s2"}

LoginPage == <<"Login / Profile">>
AddFacultyPage == <<"Add Faculty">>
RateFacultyPage == <<"Rate Faculty">>
AboutPage == <<"About">>
Pages == {LoginPage, AddFacultyPage, RateFacultyPage, AboutPage}

MustLogIn == <<"You must log in first.">>
InvalidEmail == <<"Invalid email.">>
LoggedInAs == <<"You are logged in as">>
NameRequired == <<"Faculty name is required.">>
FacultyAdded == <<"Faculty added successfully!">>
NoFaculty == <<"No faculty added yet.">>
RangeError == <<"Internal Marks 'From' cannot be greater than 'To'.">>
RatingSubmitted == <<"Rating submitted successfully!">>
Nothing == <<>>

\* "Session state init": what a session holds after its first run of the script
NewSession ==
    [logged_in |-> FALSE, user_email |-> None, reg_no |-> None, page |-> LoginPage]

\* a variant that lets every session through
require_login_skipped(ss) == TRUE

\* require_login(): TRUE when the script goes on, FALSE when it warns and stops
require_login(ss) == ss.logged_in

\* what a run of the script shows to the session state ss when no form was
\* submitted in it
Render(ss, fac) ==
    CASE ss.page = LoginPage -> IF ss.logged_in THEN LoggedInAs ELSE Nothing
      [] ss.page = AddFacultyPage -> IF require_login(ss) THEN Nothing ELSE MustLogIn
      [] ss.page = RateFacultyPage ->
            IF ~require_login(ss) THEN MustLogIn
            ELSE IF fac = <<>> THEN NoFaculty ELSE Nothing
      [] OTHER -> Nothing

\* init_db() at the top of every run of the script, db being what it returns
RunInitDb(db) ==
    /\ tables' = db.tables
    /\ rating_cols' = db.cols

\* a run that writes no row
NoWrite(db) ==
    /\ rating' = db.rows
    /\ UNCHANGED <<faculty, sqlite_sequence>>

\* the page radio of session s moves to p
Navigate(s, p) ==
    /\ p # session[s].page
    /\ LET db == init_db(Db) IN RunInitDb(db) /\ NoWrite(db)
    /\ session' = [session EXCEPT ![s].page = p]
    /\ alert' = Render(session'[s], faculty)
    /\ UNCHANGED <<now, call>>

\* the sidebar's Logout button, which the script shows to a logged-in session
Logout(s) ==
    /\ session[s].logged_in
    /\ LET db == init_db(Db) IN RunInitDb(db) /\ NoWrite(db)
    /\ session' = [session EXCEPT ![s].logged_in = FALSE,
                                  ![s].user_email = None,
                                  ![s].reg_no = None]
    /\ alert' = Render(session'[s], faculty)
    /\ UNCHANGED <<now, call>>

\* the state the login handler leaves for the text typed
LoginState(ss, typed) ==
    LET email == Strip(typed)
    IN  IF ss.logged_in \/ ~valid_college_email(email) THEN ss
        ELSE [ss EXCEPT !.logged_in = TRUE,
                        !.user_email = email,
                        !.reg_no = extract_reg_no(email)]

\* login_form is submitted with the text typed
LoginSubmit(s, typed) ==
    /\ session[s].page = LoginPage
    /\ LET db == init_db(Db) IN RunInitDb(db) /\ NoWrite(db)
    /\ session' = [session EXCEPT ![s] = LoginState(session[s], typed)]
    /\ alert' = IF session'[s].logged_in THEN LoggedInAs ELSE InvalidEmail
    /\ UNCHANGED <<now, call>>

\* a variant that tests the name as typed
NameMissingUnstripped(name) == name = <<>>

\* not name.strip()
NameMissing(name) == Strip(name) = <<>>

\* internal_from > internal_to
RangeInvalid(form) == form.internal_from > form.internal_to

\* add_faculty_form is submitted with the filling form
SaveFaculty(s, form) ==
    /\ session[s].page = AddFacultyPage
    /\ LET db == init_db(Db) IN RunInitDb(db) /\ rating' = db.rows
    /\ IF ~require_login(session[s])
       THEN /\ alert' = MustLogIn
            /\ UNCHANGED <<faculty, sqlite_sequence>>
       ELSE IF NameMissing(form.name)
       THEN /\ alert' = NameRequired
            /\ UNCHANGED <<faculty, sqlite_sequence>>
       ELSE /\ Len(faculty) < MaxFaculty
            /\ add_faculty(Strip(form.name), Strip(form.dept))
            /\ alert' = FacultyAdded
    /\ UNCHANGED <<now, session, call>>

\* f'{f["name"]} ({f["department"] or "No dept"})'
Label(f) ==
    f.name \o <<" ", "(">>
           \o (IF f.department # None /\ f.department # <<>>
               THEN f.department ELSE <<"No dept">>)
           \o <<")">>

\* faculty_options[label]: a dict comprehension keeps the last entry of a key
FacultyOption(faculties, label) ==
    LET k == CHOOSE k \in DOMAIN faculties :
                /\ Label(faculties[k]) = label
                /\ \A j \in DOMAIN faculties : Label(faculties[j]) = label => j <= k
    IN  faculties[k].id

\* rating_form is submitted with the filling form while the selectbox shows label
SubmitRating(s, label, form) ==
    /\ session[s].page = RateFacultyPage
    /\ UNCHANGED faculty
    /\ LET db == init_db(Db)
       IN  /\ RunInitDb(db)
           /\ IF ~require_login(session[s])
              THEN /\ alert' = MustLogIn
                   /\ rating' = db.rows
                   /\ UNCHANGED sqlite_sequence
              ELSE \E faculties \in get_all_faculty_with_avg :
                      IF faculties = <<>>
                      THEN /\ alert' = NoFaculty
                           /\ rating' = db.rows
                           /\ UNCHANGED sqlite_sequence
                      ELSE /\ label \in {Label(faculties[k]) : k \in DOMAIN faculties}
                           /\ LET selected_id == FacultyOption(faculties, label)
                              IN  \E fac \in get_faculty_by_id(selected_id) :
                                     IF RangeInvalid(form)
                                     THEN /\ alert' = RangeError
                                          /\ rating' = db.rows
                                          /\ UNCHANGED sqlite_sequence
                                     ELSE /\ Len(rating) < MaxRatings
                                          /\ add_rating(db.rows, db.cols, fac.id, form,
                                                        session[s].user_email,
                                                        session[s].reg_no)
                                          /\ alert' = RatingSubmitted
    /\ UNCHANGED <<now, session, call>>

\* the labels a selectbox can show
Labels == {Label(f) : f \in Range(faculty)} \cup {<<>>}

\* the wall clock advances
Tick ==
    /\ now < MaxTime
    /\ now' = now + 1
    /\ UNCHANGED <<tables, rating_cols, faculty, rating, sqlite_sequence, session, alert, call>>

NoCall == [fn |-> "", arg |-> None, ok |-> FALSE, out |-> None]

\* a fresh deployment after the script's first run, each session on its first page
Init ==
    /\ tables = {"faculty", "rating"}
    /\ rating_cols = CurrentCols
    /\ faculty = <<>>
    /\ rating = <<>>
    /\ sqlite_sequence = [faculty |-> 0, rating |-> 0]
    /\ now = 0
    /\ session = [s \in Sessions |-> NewSession]
    /\ alert = Nothing
    /\ call = NoCall

Next ==
    \/ \E s \in Sessions, p \in Pages : Navigate(s, p)
    \/ \E s \in Sessions : Logout(s)
    \/ \E s \in Sessions, typed \in LoginInputs : LoginSubmit(s, typed)
    \/ \E s \in Sessions, form \in FacultyForms : SaveFaculty(s, form)
    \/ \E s \in Sessions, label \in Labels, form \in RatingForms : SubmitRating(s, label, form)

Spec == Init /\ [][Next]_vars

-----------------------------------------------------------------------------
(* The store called directly, by a caller that keeps the form's checks *)

CallAddFaculty(f) ==
    /\ Len(faculty) < MaxFaculty
    /\ add_faculty(f.name, f.dept)
    /\ UNCHANGED <<tables, rating_cols, rating, now, session, alert, call>>

CallAddRating(fid, form) ==
    /\ Len(rating) < MaxRatings
    /\ get_faculty_by_id(fid) # {}
    /\ add_rating(rating, rating_cols, fid, form, Reg1 \o Suffix, Reg1)
    /\ UNCHANGED <<tables, rating_cols, faculty, now, session, alert, call>>

NextStore ==
    \/ \E f \in StoreFaculty : CallAddFaculty(f)
    \/ \E fid \in 1..MaxFaculty, form \in StoreForms : CallAddRating(fid, form)
    \/ Tick

SpecStore == Init /\ [][NextStore]_vars

-----------------------------------------------------------------------------
(* init_db() against the database file it finds *)

\* no file yet, or the tables of an earlier revision: the base columns, some of
\* the later ones, and at most one rating row
InitSchema ==
    /\ \/ /\ tables = {}
          /\ rating_cols = <<>>
          /\ faculty = <<>>
          /\ rating = <<>>
          /\ sqlite_sequence = [faculty |-> 0, rating |-> 0]
       \/ /\ tables = {"faculty", "rating"}
          /\ \E have \in SUBSET Range(MigrationCols) :
                rating_cols = BaseCols \o SelectSeq(MigrationCols, LAMBDA c : c \in have)
          /\ faculty = <<[id |-> 1, name |-> <<"A">>, department |-> None]>>
          /\ \/ rating = <<>>
             \/ \E leniency \in {1, 5} : rating = <<LegacyRow(rating_cols, leniency)>>
          /\ sqlite_sequence = [faculty |-> 1, rating |-> Len(rating)]
    /\ now = 0
    /\ session = [s \in Sessions |-> NewSession]
    /\ alert = Nothing
    /\ call = NoCall

\* the script starts: init_db()
CallInitDb ==
    /\ LET db == init_db(Db) IN RunInitDb(db) /\ rating' = db.rows
    /\ call' = [NoCall EXCEPT !.fn = "init_db"]
    /\ UNCHANGED <<faculty, sqlite_sequence, now, session, alert>>

NextSchema == CallInitDb

SpecSchema == InitSchema /\ [][NextSchema]_vars

-----------------------------------------------------------------------------
(* The login helpers called directly *)

InitLogin ==
    /\ Init!1 /\ Init!2 /\ Init!3 /\ Init!4 /\ Init!5 /\ Init!6 /\ Init!7 /\ Init!8
    /\ \E email \in EmailInputs \cup {None} :
          call = [fn |-> "input", arg |-> email, ok |-> FALSE, out |-> None]

CallValidCollegeEmail ==
    /\ call.fn = "input"
    /\ call' = [fn |-> "valid_college_email", arg |-> call.arg,
                ok |-> valid_college_email(call.arg), out |-> None]
    /\ UNCHANGED <<tables, rating_cols, faculty, rating, sqlite_sequence, now, session, alert>>

\* extract_reg_no(email), and once more on what a first call returned
CallExtractRegNo ==
    /\ call.fn \in {"input", "extract_reg_no"}
    /\ LET email == IF call.fn = "input" THEN call.arg ELSE call.out
       IN  call' = [fn |-> "extract_reg_no", arg |-> email,
                    ok |-> TRUE, out |-> extract_reg_no(email)]
    /\ UNCHANGED <<tables, rating_cols, faculty, rating, sqlite_sequence, now, session, alert>>

NextLogin == CallValidCollegeEmail \/ CallExtractRegNo

SpecLogin == InitLogin /\ [][NextLogin]_vars

-----------------------------------------------------------------------------
(* Properties of the script: Spec *)

Last(s) == s[Len(s)]

IsPrefix(a, b) == Len(a) <= Len(b) /\ SubSeq(b, 1, Len(a)) = a

Ids(rows) == {rows[i].id : i \in DOMAIN rows}

SaveFacultyBy(s) == \E form \in FacultyForms : SaveFaculty(s, form)

SubmitRatingBy(s) ==
    \E label \in Labels, form \in RatingForms : SubmitRating(s, label, form)

\* C1: a step writes a faculty row or a rating row only as the form submission
\* of a session whose logged_in is true; a submission of a session whose
\* logged_in is false ends at require_login's warning and leaves both tables
\* as they were.
C1_WritesNeedLogin ==
    [][(faculty' # faculty \/ rating' # rating) =>
          /\ \E s \in Sessions :
                session[s].logged_in /\ (SaveFacultyBy(s) \/ SubmitRatingBy(s))
          /\ \A s \in Sessions :
                ~session[s].logged_in => ~(SaveFacultyBy(s) \/ SubmitRatingBy(s))]_vars

\* a logged-out session was just turned away while both tables hold rows
C1_Witness ==
    /\ alert = MustLogIn
    /\ faculty # <<>>
    /\ rating # <<>>
    /\ \E s \in Sessions :
          ~session[s].logged_in /\ session[s].page \in {AddFacultyPage, RateFacultyPage}

\* C3: a submission that fails validation (Add Faculty with an empty or
\* whitespace-only name, a rating with internal_from > internal_to) leaves the
\* faculty and rating tables exactly as they were, and the listing of every
\* faculty's ratings afterwards is the one before.
C3_RejectedNeverStored ==
    [][/\ (faculty' # faculty \/ rating' # rating) =>
              \A s \in Sessions :
                  /\ \A form \in FacultyForms :
                        (\A k \in DOMAIN form.name : form.name[k] \in Whitespace)
                            => ~SaveFaculty(s, form)
                  /\ \A label \in Labels, form \in RatingForms :
                        form.internal_from > form.internal_to
                            => ~SubmitRating(s, label, form)
       /\ alert' \in {NameRequired, RangeError} =>
              \A fid \in 1..MaxFaculty :
                  get_ratings_for_faculty(fid)' = get_ratings_for_faculty(fid)]_vars

\* a logged-in session's rating was just rejected for its range, with ratings stored
C3_Witness ==
    /\ alert = RangeError
    /\ rating # <<>>
    /\ \E s \in Sessions : session[s].logged_in /\ session[s].page = RateFacultyPage

\* C8: every rating row's faculty_id is the id of exactly one row of the
\* faculty table.
C8_ReferentialIntegrity ==
    \A i \in DOMAIN rating :
        Cardinality({j \in DOMAIN faculty : faculty[j].id = rating[i].faculty_id}) = 1

\* two sessions are logged in and two faculty have a rating each
C8_Witness ==
    /\ \A s \in Sessions : session[s].logged_in
    /\ \E i, j \in DOMAIN rating : rating[i].faculty_id # rating[j].faculty_id

ExactEmail(email, reg) ==
    /\ email = reg \o Suffix
    /\ Len(reg) = RegNoLen
    /\ \A k \in DOMAIN reg : reg[k] \in Digits

\* C9: the row a Submit Rating writes carries the submitting session's
\* user_email and reg_no at that moment; in every rating row user_email is nine
\* digits followed by the college suffix, reg_no is those nine digits and is
\* extract_reg_no(user_email), and extract_reg_no(reg_no) is reg_no again.
C9_RatingCarriesIdentity ==
    [][rating' # rating =>
          /\ \A s \in Sessions :
                SubmitRatingBy(s) =>
                    /\ session[s].logged_in
                    /\ Last(rating').user_email = session[s].user_email
                    /\ Last(rating').reg_no = session[s].reg_no
          /\ \A i \in DOMAIN rating' :
                /\ ExactEmail(rating'[i].user_email, rating'[i].reg_no)
                /\ extract_reg_no(rating'[i].user_email) = rating'[i].reg_no
                /\ extract_reg_no(rating'[i].reg_no) = rating'[i].reg_no]_vars

\* the two ratings come from different users, one of whom has logged out since
C9_Witness ==
    /\ Len(rating) >= 2
    /\ rating[1].user_email # rating[2].user_email
    /\ \E s \in Sessions : ~session[s].logged_in
    /\ \E s \in Sessions : session[s].logged_in /\ session[s].user_email = rating[2].user_email

\* C10: every step keeps each existing faculty row and rating row as it was and
\* removes none; a step that changes the faculty table appends one row with an
\* id no row had and leaves the rating table alone; a step that changes the
\* rating table appends one row with an id no row had and leaves the faculty
\* table alone; navigation, login, logout and the re-run of init_db change
\* neither table.
C10_AppendOnly ==
    [][/\ IsPrefix(faculty, faculty')
       /\ IsPrefix(rating, rating')
       /\ faculty' # faculty =>
              /\ Len(faculty') = Len(faculty) + 1
              /\ Last(faculty').id \notin Ids(faculty)
              /\ rating' = rating
       /\ rating' # rating =>
              /\ Len(rating') = Len(rating) + 1
              /\ Last(rating').id \notin Ids(rating)
              /\ faculty' = faculty
       /\ (faculty' # faculty \/ rating' # rating) =>
              \A s \in Sessions :
                  /\ \A p \in Pages : ~Navigate(s, p)
                  /\ ~Logout(s)
                  /\ \A typed \in LoginInputs : ~LoginSubmit(s, typed)]_vars

\* both tables are full
C10_Witness == Len(faculty) >= 2 /\ Len(rating) >= 2

-----------------------------------------------------------------------------
(* Properties of the login helpers: SpecLogin *)

\* C2: valid_college_email accepts only a text of exactly nine digits followed
\* by ".simats@saveetha.com"; every other text (wrong suffix, wrong digit
\* count, empty) is rejected.
C2_OnlyExactEmailAccepted ==
    (call.fn = "valid_college_email" /\ call.ok) =>
        /\ Len(call.arg) = RegNoLen + Len(Suffix)
        /\ ExactEmail(call.arg, SubSeq(call.arg, 1, RegNoLen))

-----------------------------------------------------------------------------
(* Properties of the store: SpecStore *)

\* C4: get_ratings_for_faculty returns the ratings of the given faculty and
\* only those, the one submitted later before the one submitted earlier,
\* however close in time the two were submitted.
C4_NewestFirst ==
    \A fid \in 1..MaxFaculty :
        \A p \in RatingOrders(fid) :
            /\ Range(p) = RatingsOf(fid)
            /\ \A i, j \in DOMAIN p : i < j => rating[p[i]].id > rating[p[j]].id

\* C5: get_all_faculty_with_avg returns exactly one row for each row of the
\* faculty table, with that row's id, name and department, in ascending order
\* of name; rating_count is the number of rating rows with that faculty_id,
\* and a faculty without ratings has count 0 and every average 0.
C5_OneRowPerFaculty ==
    /\ get_all_faculty_with_avg # {}
    /\ \A res \in get_all_faculty_with_avg :
          /\ Len(res) = Len(faculty)
          /\ \A i \in DOMAIN faculty :
                \E k \in DOMAIN res :
                    /\ res[k].id = faculty[i].id
                    /\ res[k].name = faculty[i].name
                    /\ res[k].department = faculty[i].department
          /\ \A j, k \in DOMAIN res : j < k => ~TextLess(res[k].name, res[j].name)
          /\ \A k \in DOMAIN res :
                /\ res[k].rating_count = Cardinality(RatingsOf(res[k].id))
                /\ res[k].rating_count = 0 =>
                      /\ res[k].avg_leniency = 0
                      /\ res[k].avg_internal = 0
                      /\ res[k].avg_correction = 0
                      /\ res[k].avg_teaching = 0

\* the faculty added second sorts first, and only one of the two has ratings
C5_Witness ==
    /\ Len(faculty) >= 2
    /\ TextLess(faculty[2].name, faculty[1].name)
    /\ RatingsOf(faculty[1].id) = {}
    /\ RatingsOf(faculty[2].id) # {}

\* the sum of column c over the ratings of faculty fid
SumOf(fid, c) == SumSeq(Column(SelectSeq(rating, LAMBDA r : r.faculty_id = fid), c))

\* the sum of internal_from + internal_to over the ratings of faculty fid
SumOfEnds(fid) == SumOf(fid, "internal_from") + SumOf(fid, "internal_to")

\* tenths is exactly num/den, in tenths
IsMean(tenths, num, den) == tenths * den = 10 * num

\* tenths is num/den to the nearest tenth
IsMeanToOneDecimal(tenths, num, den) ==
    /\ 2 * (10 * num - tenths * den) <= den
    /\ 2 * (tenths * den - 10 * num) <= den

\* the row of faculty fid in a result of get_all_faculty_with_avg
RowOf(res, fid) == res[CHOOSE k \in DOMAIN res : res[k].id = fid]

\* tenths is num/den, exactly or to the nearest tenth
IsAverage(exact, tenths, num, den) ==
    IF exact THEN IsMean(tenths, num, den) ELSE IsMeanToOneDecimal(tenths, num, den)

\* both aggregate queries report, for every faculty that has a rating, each
\* average as the mean (exactly, or to the nearest tenth), and the same value
AveragesAre(exact) ==
    \A i \in DOMAIN faculty :
        LET fid == faculty[i].id
            n == Cardinality(RatingsOf(fid))
            one == get_avg_for_faculty(fid)
        IN  n >= 1 =>
                /\ IsAverage(exact, one.avg_leniency, SumOf(fid, "leniency"), n)
                /\ IsAverage(exact, one.avg_correction, SumOf(fid, "correction"), n)
                /\ IsAverage(exact, one.avg_teaching, SumOf(fid, "teaching"), n)
                /\ IsAverage(exact, one.avg_internal, SumOfEnds(fid), 2 * n)
                /\ one.rating_count = n
                /\ \A res \in get_all_faculty_with_avg :
                      /\ RowOf(res, fid).avg_leniency = one.avg_leniency
                      /\ RowOf(res, fid).avg_correction = one.avg_correction
                      /\ RowOf(res, fid).avg_teaching = one.avg_teaching
                      /\ RowOf(res, fid).avg_internal = one.avg_internal
                      /\ RowOf(res, fid).rating_count = one.rating_count

\* C6 as stated: for a faculty with a rating, both aggregate queries report
\* the mean of leniency, of correction, of teaching, and of the midpoints
\* (internal_from + internal_to)/2, and agree.
C6_ExactMeans == AveragesAre(TRUE)

\* the ratings (8, 6, 9, 70, 80) and (10, 8, 7, 60, 70) of one faculty
Example(fid) ==
    /\ Cardinality(RatingsOf(fid)) = 2
    /\ \E i, j \in RatingsOf(fid) :
          /\ rating[i].leniency = 8 /\ rating[i].internal_from = 70
          /\ rating[j].leniency = 10 /\ rating[j].internal_from = 60

\* C6 as amended: for a faculty with a rating, both aggregate queries report
\* each of these means rounded to one decimal place, and agree; the ratings
\* (8, 6, 9, 70, 80) and (10, 8, 7, 60, 70) give 9.0 and 70.0.
C6_MeansToOneDecimal ==
    /\ AveragesAre(FALSE)
    /\ \A fid \in 1..MaxFaculty :
          Example(fid) =>
              /\ get_avg_for_faculty(fid).avg_leniency = 90
              /\ get_avg_for_faculty(fid).avg_internal = 700

\* a faculty has two ratings whose mean midpoint is not a whole number of tenths
C6_Witness ==
    \E fid \in 1..MaxFaculty :
        /\ Cardinality(RatingsOf(fid)) = 2
        /\ (10 * SumOfEnds(fid)) % 4 # 0

-----------------------------------------------------------------------------
(* Properties of init_db: SpecSchema *)

NoDuplicates(s) == \A i, j \in DOMAIN s : i # j => s[i] # s[j]

\* C7: a call of init_db leaves a rating table that has every column add_rating
\* writes and no column twice, keeps every column the table had in its place,
\* keeps every row and every cell a row had, gives the added cells NULL, and
\* leaves the faculty table alone; a second call right after changes nothing.
C7_InitDbIdempotent ==
    [][CallInitDb =>
          LET after == [tables |-> tables', cols |-> rating_cols', rows |-> rating']
          IN  /\ tables' = {"faculty", "rating"}
              /\ InsertCols \subseteq Range(rating_cols')
              /\ NoDuplicates(rating_cols')
              /\ IsPrefix(rating_cols, rating_cols')
              /\ Len(rating') = Len(rating)
              /\ \A i \in DOMAIN rating :
                    /\ DOMAIN rating'[i] = Range(rating_cols')
                    /\ \A c \in DOMAIN rating'[i] :
                          rating'[i][c] = IF c \in DOMAIN rating[i]
                                          THEN rating[i][c] ELSE Null(c)
              /\ faculty' = faculty
              /\ init_db(after) = after]_vars

\* init_db has migrated a table that lacked reg_no and held a row
C7_Witness ==
    /\ call.fn = "init_db"
    /\ rating # <<>>
    /\ rating[1].reg_no = None
    /\ rating[1].leniency = 5
    /\ InsertCols \subseteq Range(rating_cols)

====
